---- MODULE Spec2Model ----
(***************************************************************************)
(* The GPA calculator component (GPACalculator) and its result overlay     *)
(* (ResultModal) of src/src/components/ResultModal.tsx as a state machine. *)
(*                                                                         *)
(* The state is the component's React state (subjectCount, subjects,       *)
(* result, showModal) and the queue of pending confetti timeouts.  The     *)
(* open flag of the count chooser's popover is display state that no       *)
(* handler reads; it is left out.  Four                                    *)
(* more variables record what the most recent handler did to the outside:  *)
(* which handler ran (event), the toast it raised (toast), whether it      *)
(* saved a PDF (download) and whether it started the confetti (confetti).  *)
(*                                                                         *)
(* Every handler is an action that can be invoked in any state, as the     *)
(* input events of the controller are: what a handler does when it is      *)
(* called is decided by its own code, not by which button is on screen.    *)
(***************************************************************************)
EXTENDS Integers, Sequences, FiniteSets

VARIABLES subjectCount, subjects, result, showModal, timers,
          event, toast, download, confetti

vars == <<subjectCount, subjects, result, showModal, timers,
          event, toast, download, confetti>>

(***************************************************************************)
(* Bounds of the model.                                                    *)
(***************************************************************************)
\* Spec: the rows of a form that is typed into, and the fields of it that hold
\* anything but a fresh row's value or the name "a", are at most this many
\* together.
MaxWeight == 5
\* SpecFilled: a form that is typed into has at most this many fields that
\* differ from the filled-in form's.
MaxChanged == 1
\* At most this many confetti timeouts are pending at once.
MaxTimers == 1

(***************************************************************************)
(* Values.                                                                 *)
(***************************************************************************)
\* useState<number | null>(null): null is falsy, as 0 is; no option is 0.
Null == 0

\* useState<null | {...}>(null): the result is absent, or holds one record.
NoResult == <<>>

Some(r) == <<r>>

\* A string is the sequence of its characters.
Whitespace == {" ", "\t", "\n"}

\* The names a user types: nothing, one blank, one letter.
Names == {<<>>, <<" ">>, <<"a">>}

\* The names a user types over a name: one letter, one blank.
NamesFilled == {<<"a">>, <<" ">>}

\* The marks a user types: below the range, its lower end, above the range.
Marks == {-1, 0, 101}

\* The marks a user types over marks: the two ends of the range.
MarksFilled == {0, 100}

subjectOptions == 4..8

creditOptions == 1..4

\* The credit hours a user picks: the first two of the options.
Credits == {c \in creditOptions : c <= 2}

\* (index + 1).toString() for the indices the options allow.
NumberToString(i) == <<"1", "2", "3", "4", "5", "6", "7", "8", "9">>[i]

\* The ids of the rows of the largest form.
Ids == {NumberToString(i) : i \in 1..8}

Toasts == {"none", "Invalid Input", "Incomplete Data", "Export Complete", "Export Error"}

(***************************************************************************)
(* String.prototype.trim                                                   *)
(***************************************************************************)
RECURSIVE TrimStart(_)
TrimStart(s) ==
  IF s # <<>> /\ Head(s) \in Whitespace THEN TrimStart(Tail(s)) ELSE s

RECURSIVE TrimEnd(_)
TrimEnd(s) ==
  IF s # <<>> /\ s[Len(s)] \in Whitespace
  THEN TrimEnd(SubSeq(s, 1, Len(s) - 1))
  ELSE s

Trim(s) == TrimEnd(TrimStart(s))

(***************************************************************************)
(* The form: useEffect on subjectCount, and updateSubject.                 *)
(***************************************************************************)
FreshSubject(index) ==
  [id |-> NumberToString(index + 1), name |-> <<>>, marks |-> 0, creditHours |-> 1]

\* Array.from({ length: subjectCount }, (_, index) => ...), index from 0.
NewSubjects(count) == [i \in 1..count |-> FreshSubject(i - 1)]

\* SubjectCountEffect keeping the rows the list already has.
SubjectCountEffectKeeps(count) ==
  IF count # Null
  THEN [i \in 1..count |->
          IF i <= Len(subjects) THEN subjects[i] ELSE FreshSubject(i - 1)]
  ELSE <<>>

SubjectCountEffect(count) ==
  IF count # Null THEN NewSubjects(count) ELSE <<>>

\* MapUpdate with filter-then-map for map: only the matching rows are kept.
MapUpdateFiltered(subs, id, field, value) ==
  LET hit == SelectSeq(subs, LAMBDA subject : subject.id = id)
  IN [i \in 1..Len(hit) |-> [hit[i] EXCEPT ![field] = value]]

\* MapUpdate writing the field into every row, whatever its id.
MapUpdateEveryRow(subs, id, field, value) ==
  [i \in 1..Len(subs) |-> [subs[i] EXCEPT ![field] = value]]

MapUpdate(subs, id, field, value) ==
  [i \in 1..Len(subs) |->
     IF subs[i].id = id THEN [subs[i] EXCEPT ![field] = value] ELSE subs[i]]

\* The number of fields of a form that hold neither a fresh row's value nor
\* the name "a".
Odd(subs) ==
  Cardinality({i \in 1..Len(subs) : subs[i].name \notin {<<>>, <<"a">>}})
  + Cardinality({i \in 1..Len(subs) : subs[i].marks # 0})
  + Cardinality({i \in 1..Len(subs) : subs[i].creditHours # 1})

\* A form's rows and the fields counted by Odd.
Weight(subs) == Len(subs) + Odd(subs)

\* The marks of row i of the filled-in form of count rows: full marks, but
\* for the last row, which keeps the marks of a fresh row.
FilledMarks(i, count) == IF i < count THEN 100 ELSE 0

\* The form of count rows after each row is given the name "a" and each row
\* but the last full marks.
FilledSubjects(count) ==
  [i \in 1..count |->
     [NewSubjects(count)[i] EXCEPT !.name = <<"a">>,
                                   !.marks = FilledMarks(i, count)]]

\* The number of fields of a form that differ from the filled-in form's.
Changed(subs) ==
  Cardinality({i \in 1..Len(subs) : subs[i].name # <<"a">>})
  + Cardinality({i \in 1..Len(subs) : subs[i].marks # FilledMarks(i, Len(subs))})
  + Cardinality({i \in 1..Len(subs) : subs[i].creditHours # 1})

(***************************************************************************)
(* GradeCalculations (@/utils/gradeCalculations).  A GPA is kept exact, as *)
(* a fraction in lowest terms; the fraction 0/0 stands for NaN.            *)
(***************************************************************************)
RECURSIVE GCD(_, _)
GCD(a, b) == IF b = 0 THEN a ELSE GCD(b, a % b)

Fraction(n, d) ==
  IF d = 0 THEN [num |-> 0, den |-> 0]
  ELSE [num |-> n \div GCD(n, d), den |-> d \div GCD(n, d)]

\* g >= k for a fraction g and an integer k; false for NaN.
FracGE(g, k) == g.den # 0 /\ g.num >= k * g.den

\* Grade points in tenths.
GradePoint(marks) ==
  IF marks >= 85 THEN 40
  ELSE IF marks >= 80 THEN 37
  ELSE IF marks >= 75 THEN 33
  ELSE IF marks >= 70 THEN 30
  ELSE IF marks >= 65 THEN 27
  ELSE IF marks >= 60 THEN 23
  ELSE IF marks >= 55 THEN 20
  ELSE IF marks >= 50 THEN 10
  ELSE 0

RECURSIVE SumPoints(_)
SumPoints(subs) ==
  IF subs = <<>> THEN 0
  ELSE GradePoint(Head(subs).marks) * Head(subs).creditHours + SumPoints(Tail(subs))

RECURSIVE SumCredits(_)
SumCredits(subs) ==
  IF subs = <<>> THEN 0 ELSE Head(subs).creditHours + SumCredits(Tail(subs))

calculateGPA(subs) == Fraction(SumPoints(subs), 10 * SumCredits(subs))

\* gpa / 4 * 100
getGPAPercentage(gpa) == Fraction(gpa.num * 25, gpa.den)

getLetterGrade(percentage) ==
  IF FracGE(percentage, 90) THEN "A"
  ELSE IF FracGE(percentage, 80) THEN "B"
  ELSE IF FracGE(percentage, 70) THEN "C"
  ELSE IF FracGE(percentage, 50) THEN "D"
  ELSE "F"

getRemarks(percentage) ==
  IF FracGE(percentage, 90) THEN "Excellent"
  ELSE IF FracGE(percentage, 70) THEN "Good"
  ELSE "Needs Improvement"

(***************************************************************************)
(* calculateResult, its validity filter and the result it builds.          *)
(***************************************************************************)
\* IsValidSubject with marks < 100 for marks <= 100.
IsValidSubjectBelow100(subject) ==
  Trim(subject.name) # <<>> /\ subject.marks >= 0 /\ subject.marks < 100

IsValidSubject(subject) ==
  Trim(subject.name) # <<>> /\ subject.marks >= 0 /\ subject.marks <= 100

ValidSubjects(subs) == SelectSeq(subs, IsValidSubject)

BuildResult(validSubjects) ==
  LET gpa == calculateGPA(validSubjects)
      percentage == getGPAPercentage(gpa)
  IN [gpa |-> gpa, grade |-> getLetterGrade(percentage),
      remarks |-> getRemarks(percentage)]

\* ConfettiThreshold with gpa > 3 for gpa >= 3.
ConfettiAboveThree(gpa) == gpa.den # 0 /\ gpa.num > 3 * gpa.den

\* if (gpa >= 3) in triggerConfetti
ConfettiThreshold(gpa) == FracGE(gpa, 3)

(***************************************************************************)
(* Initial state: the useState initial values, nothing pending or emitted. *)
(***************************************************************************)
Init ==
  /\ subjectCount = Null
  /\ subjects = <<>>
  /\ result = NoResult
  /\ showModal = FALSE
  /\ timers = <<>>
  /\ event = "init"
  /\ toast = "none"
  /\ download = FALSE
  /\ confetti = FALSE

\* What a handler that raises no toast, saves nothing and starts no confetti
\* leaves behind.
Quiet(name) ==
  /\ event' = name
  /\ toast' = "none"
  /\ download' = FALSE
  /\ confetti' = FALSE

(***************************************************************************)
(* CommandItem onSelect, with the subjectCount effect it triggers: choosing *)
(* the current count again clears it.                                      *)
(***************************************************************************)
OnSelect(value) ==
  LET count == IF value = subjectCount THEN Null ELSE value IN
  /\ subjectCount' = count
  /\ subjects' = SubjectCountEffect(count)
  /\ Quiet("select")
  /\ UNCHANGED <<result, showModal, timers>>

(***************************************************************************)
(* updateSubject(id, field, value), from one of the three inputs of a row. *)
(***************************************************************************)
UpdateSubject(id, field, value) ==
  /\ subjects' = MapUpdate(subjects, id, field, value)
  /\ Quiet("update")
  /\ UNCHANGED <<subjectCount, result, showModal, timers>>

\* The three inputs of a row; the form stays within the bound.
OnChange ==
  /\ \E id \in Ids :
       \/ \E value \in Names : UpdateSubject(id, "name", value)
       \/ \E value \in Marks : UpdateSubject(id, "marks", value)
       \/ \E value \in Credits : UpdateSubject(id, "creditHours", value)
  /\ Weight(subjects') <= MaxWeight

\* The same inputs on a filled-in form; the form stays near it.
OnChangeFilled ==
  /\ \E id \in Ids :
       \/ \E value \in NamesFilled : UpdateSubject(id, "name", value)
       \/ \E value \in MarksFilled : UpdateSubject(id, "marks", value)
       \/ \E value \in Credits : UpdateSubject(id, "creditHours", value)
  /\ Changed(subjects) <= MaxChanged
  /\ Changed(subjects') <= MaxChanged

(***************************************************************************)
(* calculateResult                                                         *)
(***************************************************************************)
\* Validation without the check against the count.
ValidationNoCount(validSubjects, count) ==
  IF Len(validSubjects) = 0 THEN "Invalid Input" ELSE "none"

\* Validation with the check against the count made first.
ValidationCountFirst(validSubjects, count) ==
  IF Len(validSubjects) # count THEN "Incomplete Data"
  ELSE IF Len(validSubjects) = 0 THEN "Invalid Input"
  ELSE "none"

\* Validation with neither check: every form is calculated.
ValidationSkipped(validSubjects, count) == "none"

\* The two checks on the valid subset, in their order: the title of the
\* toast to raise, "none" when both pass.
Validation(validSubjects, count) ==
  IF Len(validSubjects) = 0 THEN "Invalid Input"
  ELSE IF Len(validSubjects) # count THEN "Incomplete Data"
  ELSE "none"

\* Rejected with the form cut down to its valid rows.
RejectedDropsInvalid(title) ==
  /\ toast' = title
  /\ subjects' = ValidSubjects(subjects)
  /\ UNCHANGED <<subjectCount, result, showModal, timers>>

\* toast({ title, ..., variant: "destructive" }); return;
Rejected(title) ==
  /\ toast' = title
  /\ UNCHANGED <<subjectCount, subjects, result, showModal, timers>>

\* setResult, setShowModal(true), setTimeout(() => triggerConfetti(gpa), 500)
Accepted(validSubjects) ==
  /\ Len(timers) < MaxTimers
  /\ toast' = "none"
  /\ result' = Some(BuildResult(validSubjects))
  /\ showModal' = TRUE
  /\ timers' = Append(timers, calculateGPA(validSubjects))
  /\ UNCHANGED <<subjectCount, subjects>>

CalculateResult ==
  LET validSubjects == ValidSubjects(subjects)
      title == Validation(validSubjects, subjectCount)
  IN /\ event' = "calculate"
     /\ download' = FALSE
     /\ confetti' = FALSE
     /\ IF title # "none" THEN Rejected(title) ELSE Accepted(validSubjects)

(***************************************************************************)
(* The timeout set by calculateResult runs triggerConfetti(gpa).           *)
(***************************************************************************)
TriggerConfetti ==
  /\ timers # <<>>
  /\ timers' = Tail(timers)
  /\ event' = "timeout"
  /\ toast' = "none"
  /\ download' = FALSE
  /\ confetti' = ConfettiThreshold(Head(timers))
  /\ UNCHANGED <<subjectCount, subjects, result, showModal>>

(***************************************************************************)
(* exportToPDF: jsPDF either builds and saves the document or throws.      *)
(***************************************************************************)
\* ExportSkipped without the check: the export always runs.
ExportNeverSkipped(r) == FALSE

\* if (!result) return;
ExportSkipped(r) == r = NoResult

\* doc.save(...), the "Export Complete" toast, setShowModal(false)
ExportSaved ==
  /\ download' = TRUE
  /\ toast' = "Export Complete"
  /\ showModal' = FALSE

\* ExportFailed closing the overlay as a successful export does.
ExportFailedCloses ==
  /\ download' = FALSE
  /\ toast' = "Export Error"
  /\ showModal' = FALSE

\* catch (error): the "Export Error" toast
ExportFailed ==
  /\ download' = FALSE
  /\ toast' = "Export Error"
  /\ UNCHANGED showModal

ExportToPDF ==
  /\ event' = "export"
  /\ confetti' = FALSE
  /\ UNCHANGED <<subjectCount, subjects, result, timers>>
  /\ IF ExportSkipped(result)
     THEN /\ toast' = "none"
          /\ download' = FALSE
          /\ UNCHANGED showModal
     ELSE ExportSaved \/ ExportFailed

(***************************************************************************)
(* ResultModal onClose={() => setShowModal(false)}                         *)
(***************************************************************************)
\* OnClose also setting the result to null.
OnCloseClearsResult ==
  /\ showModal' = FALSE
  /\ result' = NoResult
  /\ Quiet("close")
  /\ UNCHANGED <<subjectCount, subjects, timers>>

OnClose ==
  /\ showModal' = FALSE
  /\ Quiet("close")
  /\ UNCHANGED <<subjectCount, subjects, result, timers>>

Next ==
  \/ \E value \in subjectOptions : OnSelect(value)
  \/ OnChange
  \/ CalculateResult
  \/ TriggerConfetti
  \/ ExportToPDF
  \/ OnClose

Spec == Init /\ [][Next]_vars

(***************************************************************************)
(* The same component from the state Spec reaches once the user has chosen *)
(* the first count option, named every row and given all but the last full *)
(* marks: its form is filled in, and what is typed from here on changes it. *)
(***************************************************************************)
FirstOption == CHOOSE n \in subjectOptions : \A m \in subjectOptions : n <= m

InitFilled ==
  /\ subjectCount = FirstOption
  /\ subjects = FilledSubjects(FirstOption)
  /\ result = NoResult
  /\ showModal = FALSE
  /\ timers = <<>>
  /\ event = "update"
  /\ toast = "none"
  /\ download = FALSE
  /\ confetti = FALSE

NextFilled ==
  \/ \E value \in subjectOptions : OnSelect(value)
  \/ OnChangeFilled
  \/ CalculateResult
  \/ TriggerConfetti
  \/ ExportToPDF
  \/ OnClose

SpecFilled == InitFilled /\ [][NextFilled]_vars

(***************************************************************************)
(* The properties checked.                                                 *)
(***************************************************************************)
\* A subject whose name is non-empty and whose marks are within [0, 100].
NamedInRange(subject) ==
  subject.name # <<>> /\ subject.marks >= 0 /\ subject.marks <= 100

\* A subject whose name has a character that is not white space and whose
\* marks are within [0, 100].
LetteredInRange(subject) ==
  /\ \E k \in 1..Len(subject.name) : subject.name[k] \notin Whitespace
  /\ subject.marks \in 0..100

\* The number of fields of a form that differ from a fresh form's.
Dirty(subs) ==
  Cardinality({i \in 1..Len(subs) : subs[i].name # <<>>})
  + Cardinality({i \in 1..Len(subs) : subs[i].marks # 0})
  + Cardinality({i \in 1..Len(subs) : subs[i].creditHours # 1})

\* The number of rows of the form that satisfy P.
Count(P(_), subs) == Cardinality({i \in 1..Len(subs) : P(subs[i])})

\* The last handler was calculateResult and it stored the result of the whole
\* form, in the form's order, and opened the overlay, raising no toast.
Succeeded ==
  /\ event = "calculate"
  /\ toast = "none"
  /\ result = Some(BuildResult(subjects))
  /\ showModal

\* C1 as stated: whenever calculate() is called on a form with a count chosen
\* whose every row has a non-empty name and marks within [0, 100], it stores
\* the result of all the rows, opens the overlay and raises no toast.
C1_Original ==
  (event = "calculate" /\ subjectCount # Null
     /\ Count(NamedInRange, subjects) = subjectCount)
  => Succeeded

\* C1 Whenever calculate() is called on a form with a count chosen whose every
\* row has a name with a character that is not white space and marks within
\* [0, 100] (0 and 100 included), it stores the result of all the rows in
\* their order as the current result, opens the overlay and raises neither
\* the "Invalid Input" nor the "Incomplete Data" toast.
C1_AllValidSucceeds ==
  (event = "calculate" /\ subjectCount # Null
     /\ Count(LetteredInRange, subjects) = subjectCount)
  => Succeeded

\* A successful calculation of a form that has a row with marks 0 and a row
\* with marks 100.
C1_Witness ==
  /\ Succeeded
  /\ subjectCount # Null
  /\ Count(LetteredInRange, subjects) = subjectCount
  /\ \E i \in 1..Len(subjects) : subjects[i].marks = 0
  /\ \E i \in 1..Len(subjects) : subjects[i].marks = 100

\* C2 as stated: a calculate() on a form where at least one but not every row
\* has a non-empty name and marks within [0, 100] raises "Incomplete Data" and
\* leaves the result and the overlay as they were.
C2_Original ==
  [][(event' = "calculate"
        /\ Count(NamedInRange, subjects) > 0
        /\ Count(NamedInRange, subjects) < subjectCount)
     => (toast' = "Incomplete Data" /\ UNCHANGED <<result, showModal, timers>>)]_vars

\* C2 A calculate() on a form where at least one but not every row has a name
\* with a character that is not white space and marks within [0, 100] raises
\* "Incomplete Data", creates no result (an absent result stays absent) and
\* does not open the overlay.
C2_SomeValidIsIncomplete ==
  [][(event' = "calculate"
        /\ Count(LetteredInRange, subjects) > 0
        /\ Count(LetteredInRange, subjects) < subjectCount)
     => (toast' = "Incomplete Data" /\ UNCHANGED <<result, showModal, timers>>)]_vars

\* calculate() has just raised "Incomplete Data" on a partly valid form with
\* no result and the overlay closed.
C2_Witness ==
  /\ event = "calculate"
  /\ toast = "Incomplete Data"
  /\ Count(LetteredInRange, subjects) > 0
  /\ Count(LetteredInRange, subjects) < subjectCount
  /\ result = NoResult
  /\ ~showModal

\* C3 A calculate() on a form no row of which has a non-empty name and marks
\* within [0, 100] raises "Invalid Input", not "Incomplete Data", creates no
\* result and does not open the overlay.
C3_NoneValidIsEmptyInput ==
  [][(event' = "calculate" /\ Count(NamedInRange, subjects) = 0)
     => (toast' = "Invalid Input" /\ UNCHANGED <<result, showModal, timers>>)]_vars

\* calculate() has just raised "Invalid Input" on a form with a count chosen,
\* every name empty, no result and the overlay closed.
C3_Witness ==
  /\ event = "calculate"
  /\ toast = "Invalid Input"
  /\ subjectCount # Null
  /\ \A i \in 1..Len(subjects) : subjects[i].name = <<>>
  /\ Len(subjects) = subjectCount
  /\ result = NoResult
  /\ ~showModal

\* C4 A calculate() that raises "Invalid Input" or "Incomplete Data" leaves
\* the subject list and the subject count as they were.
C4_FailureKeepsForm ==
  [][(event' = "calculate" /\ toast' \in {"Invalid Input", "Incomplete Data"})
     => UNCHANGED <<subjects, subjectCount>>]_vars

\* calculate() has just failed on a form that holds typed data.
C4_Witness ==
  /\ event = "calculate"
  /\ toast \in {"Invalid Input", "Incomplete Data"}
  /\ Dirty(subjects) >= 2

\* C5 After a count is chosen the list has exactly that many rows, each with
\* an empty name, marks 0 and credit hours 1, whatever the list held before;
\* after the count is cleared the list is empty.
C5_ResizeIsDestructive ==
  event = "select" =>
    IF subjectCount = Null
    THEN subjects = <<>>
    ELSE /\ Len(subjects) = subjectCount
         /\ \A i \in 1..Len(subjects) :
              /\ subjects[i].name = <<>>
              /\ subjects[i].marks = 0
              /\ subjects[i].creditHours = 1

\* The count has just been changed to the second option after a form of the
\* first was filled in and calculated.
C5_Witness ==
  /\ event = "select"
  /\ subjectCount \notin {Null, FirstOption}
  /\ Len(subjects) = subjectCount
  /\ result # NoResult

\* C6 In every reachable state the list is as long as the subject count (empty
\* when none is chosen) and its ids are "1", "2", ... in order.
C6_LengthAndIds ==
  /\ Len(subjects) = (IF subjectCount = Null THEN 0 ELSE subjectCount)
  /\ \A i \in 1..Len(subjects) :
       subjects[i].id = <<"1", "2", "3", "4", "5", "6", "7", "8", "9">>[i]

\* A form of the second option with typed data, a result of an earlier form
\* still stored.
C6_Witness ==
  /\ subjectCount \notin {Null, FirstOption}
  /\ Len(subjects) = subjectCount
  /\ Dirty(subjects) >= 2
  /\ result # NoResult
  /\ event = "update"

\* C7 as stated: dismissing the overlay while a result is shown leaves no
\* current result, and leaves the subject list as it was.
C7_Original ==
  [][(event' = "close" /\ showModal /\ result # NoResult)
     => (result' = NoResult /\ UNCHANGED subjects)]_vars

\* C7 Dismissing the overlay while a result is shown closes the overlay and
\* leaves the stored result, the subject list and the subject count as they
\* were.
C7_DismissKeepsResult ==
  [][(event' = "close" /\ showModal /\ result # NoResult)
     => (~showModal' /\ UNCHANGED <<result, subjects, subjectCount>>)]_vars

\* The overlay has just been dismissed, the result of the form still stored
\* and its confetti timeout still pending.
C7_Witness ==
  /\ event = "close"
  /\ ~showModal
  /\ result = Some(BuildResult(subjects))
  /\ timers # <<>>

\* C8 An export while a result is shown either saves the document, raises
\* "Export Complete" and closes the overlay, or saves nothing, raises "Export
\* Error" and leaves the overlay open; either way the result, the subject list
\* and the subject count are as they were.
C8_ExportOutcomes ==
  [][(event' = "export" /\ showModal /\ result # NoResult)
     => /\ \/ (toast' = "Export Complete" /\ download' /\ ~showModal')
           \/ (toast' = "Export Error" /\ ~download' /\ showModal')
        /\ UNCHANGED <<result, subjects, subjectCount>>]_vars

\* An export has just failed: the overlay is open and the result is stored.
C8_Witness ==
  /\ event = "export"
  /\ toast = "Export Error"
  /\ showModal
  /\ result = Some(BuildResult(subjects))

\* C9 An export while no result is stored saves nothing, raises no toast and
\* changes no state of the component.
C9_ExportWithoutResult ==
  [][(event' = "export" /\ result = NoResult)
     => /\ toast' = "none"
        /\ ~download'
        /\ UNCHANGED <<subjectCount, subjects, result, showModal, timers>>]_vars

\* An export has just been asked for on a form with no result stored.
C9_Witness ==
  /\ event = "export"
  /\ result = NoResult
  /\ subjectCount # Null
  /\ toast = "none"
  /\ ~download

\* A GPA of 3.0 or more.
AtLeastThree(gpa) == gpa.den > 0 /\ gpa.num >= 3 * gpa.den

\* C10 The confetti starts only when a timeout runs, and then exactly when the
\* GPA the timeout carries is 3.0 or more; a timeout is set only by a
\* calculate() that succeeds, and carries the GPA of the result it stored; a
\* timeout that runs leaves the result, the overlay and the form as they were.
C10_ConfettiOnlyFromThree ==
  [][/\ confetti' => event' = "timeout"
     /\ event' = "timeout" =>
          /\ timers # <<>>
          /\ confetti' <=> AtLeastThree(Head(timers))
          /\ UNCHANGED <<result, showModal, subjects, subjectCount>>
     /\ Len(timers') > Len(timers) =>
          /\ event' = "calculate"
          /\ toast' = "none"
          /\ showModal'
          /\ result' = Some(BuildResult(subjects'))
          /\ timers' = Append(timers, result'[1].gpa)]_vars

\* The confetti has just started for a stored result whose GPA is exactly 3.
C10_Witness ==
  /\ event = "timeout"
  /\ confetti
  /\ showModal
  /\ result # NoResult
  /\ result[1].gpa = [num |-> 3, den |-> 1]

\* C11 Whenever calculate() invokes calculateGPA, which it does exactly when it
\* raises no toast, the list it passes is the valid rows of the form, is not
\* empty and has credit hours that sum to more than zero, so the GPA it
\* stores is a number; this holds after writes of any name and marks, which
\* are stored unchecked.
C11_PreconditionEnforced ==
  [][(event' = "calculate" /\ toast' = "none")
     => /\ ValidSubjects(subjects) # <<>>
        /\ SumCredits(ValidSubjects(subjects)) > 0
        /\ result' = Some(BuildResult(ValidSubjects(subjects)))
        /\ result'[1].gpa.den # 0
        /\ timers' = Append(timers, calculateGPA(ValidSubjects(subjects)))]_vars

\* calculate() has just succeeded on a form one row of which was given two
\* credit hours.
C11_Witness ==
  /\ Succeeded
  /\ subjects # <<>>
  /\ SumCredits(subjects) > Len(subjects)
  /\ result[1].gpa.den # 0

\* What updateField(id, field, value) has done when it has done what C12
\* says: the rows with that id hold the value in the field and are otherwise
\* as they were, at most one row has that id, every other row, the length,
\* the count, the result, the overlay and the timeouts are as they were.
Replaced(id, field, value) ==
  /\ DOMAIN subjects' = DOMAIN subjects
  /\ Cardinality({i \in DOMAIN subjects : subjects[i].id = id}) <= 1
  /\ \A i \in DOMAIN subjects :
       IF subjects[i].id = id
       THEN /\ subjects'[i][field] = value
            /\ \A other \in {"id", "name", "marks", "creditHours"} \ {field} :
                 subjects'[i][other] = subjects[i][other]
       ELSE subjects'[i] = subjects[i]
  /\ (\A i \in DOMAIN subjects : subjects[i].id # id) => subjects' = subjects
  /\ UNCHANGED <<subjectCount, result, showModal, timers>>

\* C12 updateField(id, field, value) replaces exactly the named field of the
\* one row whose id matches, storing the value as given, marks outside
\* [0, 100] included; the row's other fields, every other row, the order and
\* length of the list, the subject count and the result are unchanged, and
\* when no row has the id the whole state is unchanged.
C12_UpdateReplacesOneField ==
  [][event' = "update" =>
       \A id \in Ids :
         /\ \A value \in Names :
              UpdateSubject(id, "name", value) => Replaced(id, "name", value)
         /\ \A value \in Marks :
              UpdateSubject(id, "marks", value) => Replaced(id, "marks", value)
         /\ \A value \in Credits :
              UpdateSubject(id, "creditHours", value)
                => Replaced(id, "creditHours", value)]_vars

\* Marks above the range have just been stored in one row of a form whose
\* other rows are named, a result of the form as it was still stored.
C12_Witness ==
  /\ event = "update"
  /\ result # NoResult
  /\ Cardinality({i \in DOMAIN subjects : subjects[i].marks = 101}) = 1
  /\ Cardinality({i \in DOMAIN subjects : subjects[i].name = <<"a">>}) >= 3

====
